---------------------------- MODULE Spec2Model ----------------------------
(***************************************************************************)
(* A model of the activation / projection / model-patch utilities          *)
(* (src/src/utils.py), the direction-generation CLI (src/generate_dirs.py) *)
(* and the start of the analysis script (src/analyze_dirs.py).             *)
(*                                                                         *)
(* Tensors are modelled as integer vectors (functions 1..Dim -> Int), a    *)
(* batch as a sequence of vectors.  The transformer blocks themselves are  *)
(* third-party code: the tokens of a forward pass are identified with the  *)
(* hidden states they embed to, and a block hands its input on unchanged,  *)
(* so that only the hooks of this repository change what flows through.    *)
(***************************************************************************)
EXTENDS Integers, Sequences, FiniteSets, TLC

(* ------------------------------- bounds ------------------------------- *)
Dim == 2            \* hidden dimension of the modelled activations
ListLen == 2        \* length of the model's ordered submodule list (transformer.h)
RightAngle == 4     \* angles are counted in units of (pi/2) / RightAngle
MaxRows == 2        \* samples of an ActivationsDataset
MaxRounds == 2      \* largest n given to the direction-generation CLI
NumLayers == 4      \* len(model.transformer.h)
LayerRange == 3     \* the analysis script scans the layers 0..LayerRange-1 (range(80) in the script)
NumModules == 2     \* hooked submodules the forward pass runs through, in order
MaxHandles == 3     \* cap on RemovableHandle ids handed out in one behaviour

Scalars == {0, 1}               \* entries of the activations drawn as inputs
BatchSizes == {1, 2}            \* batch sizes of the token inputs
Additionals == {0, 1}           \* values of create_frankenstein's `additional`

Modules == 1..NumModules
Vec == [1..Dim -> Scalars]

(* ------------------------- tensor arithmetic -------------------------- *)
RECURSIVE SumTo(_, _)
SumTo(f, n) == IF n = 0 THEN 0 ELSE f[n] + SumTo(f, n - 1)

Dot(u, v) == SumTo([i \in 1..Dim |-> u[i] * v[i]], Dim)
VAdd(u, v) == [i \in 1..Dim |-> u[i] + v[i]]
VSub(u, v) == [i \in 1..Dim |-> u[i] - v[i]]
VScale(k, u) == [i \in 1..Dim |-> k * u[i]]
VAddScalar(u, k) == [i \in 1..Dim |-> u[i] + k]
ZeroVec == [i \in 1..Dim |-> 0]
Basis(k) == [i \in 1..Dim |-> IF i = k THEN 1 ELSE 0]

\* einsum("...n, n h -> ...h", inner_products, dirs) for one vector
RECURSIVE Combine(_, _, _)
Combine(ips, dirs, n) ==
    IF n = 0 THEN ZeroVec
    ELSE VAdd(Combine(ips, dirs, n - 1), VScale(ips[n], dirs[n]))

\* utils.project for one vector of the batch ("...h")
project(dir, dirs, strength) ==
    LET inner_products == [n \in 1..Len(dirs) |-> Dot(dirs[n], dir)]
    IN  VSub(dir, VScale(strength, Combine(inner_products, dirs, Len(dirs))))

\* utils.project applied to a batch (the leading "..." axes)
projectBatch(X, dirs, strength) == [r \in 1..Len(X) |-> project(X[r], dirs, strength)]

\* direction sets with orthonormal rows: up to two distinct basis vectors
DirSets ==
    {<<>>} \cup { <<Basis(k)>> : k \in 1..Dim }
           \cup { <<Basis(kl[1]), Basis(kl[2])>> :
                    kl \in { p \in (1..Dim) \X (1..Dim) : p[1] < p[2] } }

BatchesOfLen(b) == [1..b -> Vec]

(* ===================================================================== *)
(* Forward hooks: get_activations, run_and_modify, create_frankenstein    *)
(* ===================================================================== *)
VARIABLES
    fwd_hooks,    \* module -> its forward hooks, in registration order: <<[id, fn]>>
    next_id,      \* the next RemovableHandle id
    pc,           \* "idle" | "try" | "finally" | "returned": the running call
    fn,           \* "none" | "get_activations" | "run_and_modify"
    tokens,       \* the tokens of the running forward pass (a batch of hidden states)
    operation,    \* get_activations' operation: "identity" | "first" (lambda x: x[0])
    handles,      \* the handles the running call registered: <<[module, id]>>
    activations,  \* get_activations' dict module -> captured value
    pos,          \* the module the forward pass runs next
    own,          \* the output the last module computed itself, before its hooks
    out,          \* the output of the last module after its hooks
    exc,          \* the exception raised inside the try block, or "none"
    result,       \* what reached the caller of the call
    hooks0,       \* fwd_hooks when the running call was entered
    frank         \* the frankenstein closure and the position of its call

HookVars == <<fwd_hooks, next_id, pc, fn, tokens, operation, handles, activations,
              pos, own, out, exc, result, hooks0, frank>>

VARIABLES
    heap,         \* the module objects: id -> [cls, children, ...]
    patch_pc,     \* "clean" | "patched" | "edit_raised" | "recovered"
    patch_call,   \* the arguments of the last edit_model_inplace call
    heap0         \* heap when that call was entered

PatchVars == <<heap, patch_pc, patch_call, heap0>>

VARIABLES
    test,         \* the Test measured: positive and negative (prompt, answer)
    orient,       \* "orig" | "swapped": whether the sides have been exchanged
    probe,        \* the two-input probe passed as model
    scores        \* orientation -> the score measure_confusions returned

ConfVars == <<test, orient, probe, scores>>

VARIABLES
    cone_in,      \* the arguments of the last project_cone call
    cone_out      \* what it raised or returned

ConeVars == <<cone_in, cone_out>>

VARIABLES
    ds,           \* the ActivationsDataset instance D: [x_data, y_data]
    ds_ret,       \* the dataset D.project(dir) returned
    ds_orig,      \* D as constructed
    ds_dir,       \* the dir D.project was called with
    ds_dir_,      \* the dir D.project_ was called with
    ds_pc         \* "fresh" | "projected" | "done"

DsVars == <<ds, ds_ret, ds_orig, ds_dir, ds_dir_, ds_pc>>

VARIABLES
    gen_args,     \* run's arguments: [model_name, n, layer_nb]
    gen_pc,       \* "start" | "loop" | "done" | "aborted"
    gen_layer,    \* layer_nb_: the transformer layer the directions are computed at
    gen_i,        \* the round
    gen_m,        \* the index of the method within the round
    gen_calls,    \* the method calls made: <<[method, seed, layer]>>
    gen_files     \* the paths torch.save wrote, in order

GenVars == <<gen_args, gen_pc, gen_layer, gen_i, gen_m, gen_calls, gen_files>>

VARIABLES
    an_files,     \* the direction files on disk: a set of <<concept, layer>>
    an_pc,        \* the statement of analyze_dirs.py that runs next
    gender_dirs,  \* layer -> the direction set loaded (a function on the layers kept)
    politics_dirs,
    empty_dirs,
    an_error      \* the error that ended the script, or "none"

AnVars == <<an_files, an_pc, gender_dirs, politics_dirs, empty_dirs, an_error>>

vars == <<HookVars, PatchVars, ConfVars, ConeVars, DsVars, GenVars, AnVars>>

\* the parts of the program that are not running, at rest
RestHooks ==
    /\ fwd_hooks = [m \in Modules |-> <<>>] /\ next_id = 0 /\ hooks0 = fwd_hooks
    /\ pc = "idle" /\ fn = "none" /\ tokens = <<>> /\ operation = "identity"
    /\ handles = <<>> /\ activations = <<>> /\ pos = 0
    /\ own = [hs |-> <<>>, rest |-> "none"] /\ out = own
    /\ exc = "none" /\ result = [kind |-> "none"] /\ frank = [phase |-> "off"]
RestPatch == heap = <<>> /\ patch_pc = "clean" /\ patch_call = <<>> /\ heap0 = <<>>
RestConf == test = <<>> /\ orient = "orig" /\ probe = <<>> /\ scores = <<>>
RestCone == cone_in = <<>> /\ cone_out = <<>>
RestDs ==
    /\ ds = <<>> /\ ds_ret = <<>> /\ ds_orig = <<>> /\ ds_dir = <<>> /\ ds_dir_ = <<>>
    /\ ds_pc = "fresh"
RestGen ==
    /\ gen_args = <<>> /\ gen_pc = "start" /\ gen_layer = 0 /\ gen_i = 0 /\ gen_m = 0
    /\ gen_calls = <<>> /\ gen_files = <<>>
RestAn ==
    /\ an_files = {} /\ an_pc = "gender_dirs" /\ gender_dirs = <<>> /\ politics_dirs = <<>>
    /\ empty_dirs = <<>> /\ an_error = "none"

NotHooks == <<PatchVars, ConfVars, ConeVars, DsVars, GenVars, AnVars>>

NoOut == [hs |-> <<>>, rest |-> "none"]
NoResult == [kind |-> "none"]
NoFrank == [phase |-> "off", dirs |-> <<>>, layer |-> 0, additional |-> 0,
            act1 |-> <<>>, proj_act1 |-> <<>>]
Operations == {"identity", "first"}

\* the lists of target modules get_activations is called with (repeats allowed)
ModuleLists ==
    {<<>>} \cup { <<m>> : m \in Modules } \cup { <<m[1], m[2]>> : m \in Modules \X Modules }

\* the dicts module -> hook run_and_modify is called with, in insertion order
ModificationFns ==
    LET F == {"zero", "keep"}
    IN  {<<>>} \cup { <<[module |-> m, fn |-> f]>> : m \in Modules, f \in F }
               \cup { <<[module |-> q[1], fn |-> q[3]], [module |-> q[2], fn |-> q[4]]>> :
                        q \in { r \in Modules \X Modules \X F \X F : r[1] # r[2] } }

\* torch's module.register_forward_hook, once per element of regs (<<[module, fn]>>)
RECURSIVE RegisterAll(_, _, _)
RegisterAll(h, regs, id) ==
    IF regs = <<>> THEN h
    ELSE RegisterAll([h EXCEPT ![Head(regs).module] =
                          Append(@, [id |-> id, fn |-> Head(regs).fn])],
                     Tail(regs), id + 1)

HandlesOf(regs, id) == [i \in 1..Len(regs) |-> [module |-> regs[i].module, id |-> id + i - 1]]

\* `for handle in handles: handle.remove()`
RemoveAll(h, hs) ==
    [m \in Modules |->
        SelectSeq(h[m], LAMBDA k : ~ \E i \in 1..Len(hs) : hs[i].module = m /\ hs[i].id = k.id)]

\* get_activations' operation applied to the detached hidden states
ApplyOperation(op, x) == IF op = "first" THEN x[1] ELSE x

\* (a variant that keeps what the projection leaves instead of what it removes)
ProjAct1_residual(act1, dirs) == project(act1, dirs, 1)

\* create_frankenstein: proj_act1 = act1 - projection_fn(act1, dirs)
ProjAct1(act1, dirs) == VSub(act1, project(act1, dirs, 1))

\* create_frankenstein's hook mix: y = projection_fn(y, dirs) + proj_act1 + additional
Mix(output, dirs, proj_act1, additional) ==
    [hs |-> [r \in 1..Len(output.hs) |->
                VAddScalar(VAdd(project(output.hs[r], dirs, 1), proj_act1), additional)],
     rest |-> output.rest]

\* the hooks hs[from..] of module m called in order, as torch's Module.__call__ does:
\* a hook's non-None return value replaces the output. [out, acts]
RECURSIVE CallHooks(_, _, _, _, _, _)
CallHooks(hs, n, m, o, acts, st) ==
    IF n = 0 THEN [out |-> o, acts |-> acts]
    ELSE LET before == CallHooks(hs, n - 1, m, o, acts, st)
             h == hs[n]
         IN  CASE h.fn = "hook_fn" ->
                    [out |-> before.out,
                     acts |-> (m :> ApplyOperation(st.operation, before.out.hs)) @@ before.acts]
               [] h.fn = "mix" ->
                    [out |-> Mix(before.out, st.dirs, st.proj_act1, st.additional),
                     acts |-> before.acts]
               [] h.fn = "zero" ->
                    [out |-> [before.out EXCEPT !.hs = [r \in 1..Len(@) |-> ZeroVec]],
                     acts |-> before.acts]
               [] OTHER -> before

\* `except Exception as e: raise e`
ExceptClause(e) == e

\* (a variant whose cleanup misses the last handle registered)
FinallyBlock_skips_last(h, hs) == RemoveAll(h, SubSeq(hs, 1, Len(hs) - 1))

\* the `finally:` block of both functions
FinallyBlock(h, hs) == RemoveAll(h, hs)

HookState == [operation |-> operation, dirs |-> frank.dirs,
              proj_act1 |-> frank.proj_act1, additional |-> frank.additional]

\* entering either function: the hooks are registered, then the try block starts
EnterCall(f, b, regs, op) ==
    /\ next_id + Len(regs) <= MaxHandles
    /\ hooks0' = fwd_hooks
    /\ fwd_hooks' = RegisterAll(fwd_hooks, regs, next_id)
    /\ handles' = HandlesOf(regs, next_id)
    /\ next_id' = next_id + Len(regs)
    /\ fn' = f
    /\ tokens' = b
    /\ operation' = op
    /\ activations' = <<>>
    /\ pos' = 1
    /\ own' = NoOut
    /\ out' = NoOut
    /\ exc' = "none"
    /\ result' = NoResult
    /\ pc' = "try"

\* a caller other than frankenstein calls get_activations(tokens, model, modules, operation)
get_activations(b, modules, op) ==
    /\ pc = "idle" /\ frank.phase = "off"
    /\ EnterCall("get_activations", b,
                 [i \in 1..Len(modules) |-> [module |-> modules[i], fn |-> "hook_fn"]], op)
    /\ UNCHANGED frank
    /\ UNCHANGED NotHooks

\* a caller other than frankenstein calls run_and_modify(tokens, model, modification_fns)
run_and_modify(b, modification_fns) ==
    /\ pc = "idle" /\ frank.phase = "off"
    /\ EnterCall("run_and_modify", b, modification_fns, "identity")
    /\ UNCHANGED frank
    /\ UNCHANGED NotHooks

\* the forward of one block: (hidden_states, *rest)
Block(x) == [hs |-> x, rest |-> "rest"]

\* model(**tokens): the forward pass reaches module pos, which computes its output (or
\* raises, k = 0); then its forward hooks run in order, and the k-th of them may raise
ForwardStep(k) ==
    /\ pc = "try" /\ pos <= NumModules
    /\ LET hs == fwd_hooks[pos]
           o == Block(IF pos = 1 THEN tokens ELSE out.hs)
           ran == CallHooks(hs, IF k = 0 THEN 0 ELSE k - 1, pos, o, activations, HookState)
       IN  /\ k \in 0..(Len(hs) + 1)
           /\ IF k = 0
              THEN /\ exc' = "ForwardError"
                   /\ pc' = "finally"
                   /\ UNCHANGED <<own, out, activations, pos>>
              ELSE /\ own' = o
                   /\ activations' = ran.acts
                   /\ IF k <= Len(hs)
                      THEN /\ exc' = "HookError"
                           /\ pc' = "finally"
                           /\ UNCHANGED <<out, pos>>
                      ELSE /\ out' = ran.out
                           /\ pos' = pos + 1
                           /\ pc' = IF pos = NumModules THEN "finally" ELSE "try"
                           /\ exc' = "none"
    /\ UNCHANGED <<fwd_hooks, next_id, fn, tokens, operation, handles, result, hooks0, frank>>
    /\ UNCHANGED NotHooks

\* the except clause and the finally block, then the return or the raise
Finally ==
    /\ pc = "finally"
    /\ fwd_hooks' = FinallyBlock(fwd_hooks, handles)
    /\ result' = IF exc # "none"
                 THEN [kind |-> "raise", exc |-> ExceptClause(exc)]
                 ELSE [kind |-> "return",
                       value |-> IF fn = "get_activations" THEN activations ELSE out]
    /\ pc' = "returned"
    /\ activations' = <<>> /\ own' = NoOut /\ out' = NoOut   \* locals of the ended call
    /\ UNCHANGED <<next_id, fn, tokens, operation, handles, pos, exc, hooks0, frank>>
    /\ UNCHANGED NotHooks

ClearFrame ==
    /\ fn' = "none" /\ tokens' = <<>> /\ operation' = "identity" /\ handles' = <<>>
    /\ activations' = <<>> /\ pos' = 0 /\ own' = NoOut /\ out' = NoOut
    /\ exc' = "none" /\ result' = NoResult /\ hooks0' = fwd_hooks

\* the caller takes the result of a direct call
Return ==
    /\ pc = "returned" /\ frank.phase = "off"
    /\ pc' = "idle"
    /\ ClearFrame
    /\ UNCHANGED <<fwd_hooks, next_id, frank>>
    /\ UNCHANGED NotHooks

\* create_frankenstein(dirs, model, layer_module, additional, projection_fn = project)
create_frankenstein(dirs, layer_module, additional) ==
    /\ pc = "idle" /\ frank.phase = "off"
    /\ frank' = [NoFrank EXCEPT !.phase = "ready", !.dirs = dirs, !.layer = layer_module,
                                 !.additional = additional]
    /\ UNCHANGED <<fwd_hooks, next_id, pc, fn, tokens, operation, handles, activations,
                   pos, own, out, exc, result, hooks0>>
    /\ UNCHANGED NotHooks

\* frankenstein(inp1, inp2), first statement: get_activations(inp1, model, [layer], x[0])
frankenstein_capture(inp1) ==
    /\ pc = "idle" /\ frank.phase = "ready"
    /\ EnterCall("get_activations", inp1,
                 <<[module |-> frank.layer, fn |-> "hook_fn"]>>, "first")
    /\ frank' = [frank EXCEPT !.phase = "capture", !.act1 = <<>>, !.proj_act1 = <<>>]
    /\ UNCHANGED NotHooks

\* frankenstein: the capture raised, and the exception leaves frankenstein
frankenstein_capture_raised ==
    /\ pc = "returned" /\ frank.phase = "capture" /\ result.kind = "raise"
    /\ frank' = [frank EXCEPT !.phase = "ready"]
    /\ pc' = "idle"
    /\ ClearFrame
    /\ UNCHANGED <<fwd_hooks, next_id>>
    /\ UNCHANGED NotHooks

\* frankenstein: act1 = ...[layer_module]; proj_act1 = ...; run_and_modify(inp2, ...)
frankenstein_modify(inp2) ==
    /\ pc = "returned" /\ frank.phase = "capture" /\ result.kind = "return"
    /\ frank.layer \in DOMAIN result.value
    /\ EnterCall("run_and_modify", inp2, <<[module |-> frank.layer, fn |-> "mix"]>>,
                 "identity")
    /\ frank' = [frank EXCEPT !.phase = "modify",
                              !.act1 = result.value[frank.layer],
                              !.proj_act1 = ProjAct1(result.value[frank.layer], frank.dirs)]
    /\ UNCHANGED NotHooks

\* frankenstein returns run_and_modify's result, or its exception leaves frankenstein
frankenstein_return ==
    /\ pc = "returned" /\ frank.phase = "modify"
    /\ frank' = [frank EXCEPT !.phase = "ready"]
    /\ pc' = "idle"
    /\ ClearFrame
    /\ UNCHANGED <<fwd_hooks, next_id>>
    /\ UNCHANGED NotHooks

\* the hooks other code registered before: at most one module carries one
InitHooks ==
    /\ \E pre \in {S \in SUBSET Modules : Cardinality(S) <= 1} :
          /\ fwd_hooks = [m \in Modules |->
                            IF m \in pre THEN <<[id |-> 0, fn |-> "foreign"]>> ELSE <<>>]
          /\ next_id = Cardinality(pre)
          /\ hooks0 = fwd_hooks
    /\ pc = "idle" /\ fn = "none" /\ tokens = <<>> /\ operation = "identity"
    /\ handles = <<>> /\ activations = <<>> /\ pos = 0 /\ own = NoOut /\ out = NoOut
    /\ exc = "none" /\ result = NoResult /\ frank = NoFrank
    /\ RestPatch /\ RestConf /\ RestCone /\ RestDs /\ RestGen /\ RestAn

\* callers of get_activations and run_and_modify
NextHooks ==
    \/ \E t \in BatchesOfLen(1), m \in ModuleLists, op \in Operations :
          get_activations(t, m, op)
    \/ \E t \in BatchesOfLen(1), f \in ModificationFns : run_and_modify(t, f)
    \/ \E k \in 0..(MaxHandles + 1) : ForwardStep(k)
    \/ Finally
    \/ Return

SpecHooks == InitHooks /\ [][NextHooks]_vars

\* callers of the probe create_frankenstein builds
NextFrank ==
    \/ \E d \in DirSets, l \in Modules, a \in Additionals : create_frankenstein(d, l, a)
    \/ \E b \in BatchSizes : \E inp1 \in BatchesOfLen(b) : frankenstein_capture(inp1)
    \/ \E k \in 0..(MaxHandles + 1) : ForwardStep(k)
    \/ Finally
    \/ frankenstein_capture_raised
    \/ \E inp2 \in BatchesOfLen(1) : frankenstein_modify(inp2)
    \/ frankenstein_return

SpecFrank == InitHooks /\ [][NextFrank]_vars

(* ------------------------------ claims ------------------------------- *)

\* C1: when get_activations or run_and_modify hands control back to its caller, after
\* a forward pass that returned or that raised (in a module or inside a hook), every
\* hook the call registered is gone, each module carries exactly the hooks it had
\* before the call, and a raised exception is the one that reaches the caller.
C1_HooksRemovedOnEveryExit ==
    pc = "returned" =>
        /\ fwd_hooks = hooks0
        /\ \A i \in 1..Len(handles) : \A m \in Modules : \A j \in 1..Len(fwd_hooks[m]) :
              fwd_hooks[m][j].id # handles[i].id
        /\ (exc # "none" => result = [kind |-> "raise", exc |-> exc])
        /\ (exc = "none" => result.kind = "return")

\* C1's case: a hook raised during a pass with two hooks registered on a module that
\* already carried a hook of other code, and control is back at the caller.
C1_Witness ==
    /\ pc = "returned" /\ exc = "HookError" /\ Len(handles) = 2
    /\ \E m \in Modules : hooks0[m] # <<>> /\ handles[1].module = m

\* what a vector has along the rows of dirs: sum over n of <a, dirs[n]> dirs[n]
ComponentAlong(a, dirs) == Combine([n \in 1..Len(dirs) |-> Dot(dirs[n], a)], dirs, Len(dirs))

\* the layer's step of the modified pass has just completed, with additional = 0
FrankLayerReplaced ==
    /\ frank.phase = "modify" /\ frank.additional = 0
    /\ pc \in {"try", "finally"} /\ exc = "none" /\ pos = frank.layer + 1

\* C4 as stated: the value replacing the layer's output is project(y, dirs) + c with
\* c = project(a, dirs), the captured activation with its components along dirs removed.
C4_Original ==
    FrankLayerReplaced =>
        \A r \in 1..Len(out.hs) :
            out.hs[r] = VAdd(project(own.hs[r], frank.dirs, 1), project(frank.act1, frank.dirs, 1))

\* C4 amended: the value replacing the layer's output is project(y, dirs) + c, where c is
\* what the projection removes from the captured activation a, a - project(a, dirs), that
\* is a's components along dirs; the rest of the output tuple passes through; and the
\* capture pass is over (its hook removed, a stored) when the modified pass runs.
C4_ReplacedByProjectionPlusComponentAlong ==
    /\ FrankLayerReplaced =>
          /\ \A r \in 1..Len(out.hs) :
                out.hs[r] = VAdd(project(own.hs[r], frank.dirs, 1),
                                 ComponentAlong(frank.act1, frank.dirs))
          /\ out.rest = own.rest
    /\ frank.phase = "modify" =>
          /\ frank.act1 \in [1..Dim -> Int]
          /\ \A m \in Modules : \A j \in 1..Len(fwd_hooks[m]) : fwd_hooks[m][j].fn # "hook_fn"

\* C4's case: the layer's output was replaced, for a captured activation that has a part
\* along dirs and a part across, and a wrong input whose own output differs from it.
C4_Witness ==
    /\ FrankLayerReplaced
    /\ ComponentAlong(frank.act1, frank.dirs) # ZeroVec
    /\ project(frank.act1, frank.dirs, 1) # ZeroVec
    /\ own.hs[1] # frank.act1
    /\ out.hs # own.hs

(* ===================================================================== *)
(* Reversible model patching: ProjectionWrapper, edit_model_inplace,      *)
(* recover_model_inplace                                                  *)
(* ===================================================================== *)
NotPatch == <<HookVars, ConfVars, ConeVars, DsVars, GenVars, AnVars>>

RootId == 0
FcId == 1
ListId == 2
ElemId(i) == 3 + i                   \* the list's element i, 0 <= i < ListLen
InnerId(id) == 100 + id              \* the module a holder keeps as .wrapped_module
OriginalIds == {FcId} \cup { ElemId(i) : i \in 0..(ListLen - 1) }
Projections == {"p", "q"}

Leaf(returns_tuple) ==
    [cls |-> "Leaf", children |-> <<>>, returns_tuple |-> returns_tuple,
     projection |-> "", has_leftover |-> FALSE]
\* a module of the caller's own that has a submodule attribute named wrapped_module
Holder(inner) ==
    [cls |-> "Holder", children |-> <<[name |-> "wrapped_module", id |-> inner]>>,
     returns_tuple |-> FALSE, projection |-> "", has_leftover |-> FALSE]
Container(cls, children) ==
    [cls |-> cls, children |-> children, returns_tuple |-> FALSE,
     projection |-> "", has_leftover |-> FALSE]

\* the model before any patch; `holders` are the submodules that have .wrapped_module
InitialHeap(holders) ==
    LET ids == {RootId, ListId} \cup OriginalIds \cup { InnerId(i) : i \in holders }
        tup(id) == id # FcId /\ id # InnerId(FcId)    \* blocks return (hidden, present)
    IN  [id \in ids |->
           CASE id = RootId ->
                  Container("Model", <<[name |-> "fc", id |-> FcId],
                                       [name |-> "h", id |-> ListId]>>)
             [] id = ListId ->
                  Container("ModuleList",
                            [i \in 1..ListLen |-> [name |-> ToString(i - 1), id |-> ElemId(i - 1)]])
             [] id \in holders -> Holder(InnerId(id))
             [] OTHER -> Leaf(tup(id))]

\* nn.Module.__getattr__ on a registered submodule name
HasAttr(o, name) == \E i \in 1..Len(o.children) : o.children[i].name = name
GetAttr(o, name) == o.children[CHOOSE i \in 1..Len(o.children) : o.children[i].name = name].id

\* nn.Module.__setattr__ with a Module value: the entry of _modules is replaced in place
SetAttr(h, parent, name, value) ==
    [h EXCEPT ![parent].children =
        IF HasAttr(h[parent], name)
        THEN [i \in 1..Len(@) |-> IF @[i].name = name THEN [name |-> name, id |-> value] ELSE @[i]]
        ELSE Append(@, [name |-> name, id |-> value])]

\* int(name) for the decimal names used as list indices
IntOf(name) == CHOOSE i \in (-ListLen - 1)..(ListLen + 1) : ToString(i) = name

\* nn.ModuleList.__setitem__: the index is made absolute, then setattr(self, str(idx), m)
ListSetItem(h, parent, idx, value) ==
    LET n == Len(h[parent].children)
        abs == IF idx < 0 THEN idx + n ELSE idx
    IN  SetAttr(h, parent, ToString(abs), value)

\* model.get_submodule(".".join(atoms)); -1 stands for its AttributeError
RECURSIVE GetSubmodule(_, _, _)
GetSubmodule(h, from, atoms) ==
    IF atoms = <<>> THEN from
    ELSE IF HasAttr(h[from], Head(atoms))
         THEN GetSubmodule(h, GetAttr(h[from], Head(atoms)), Tail(atoms))
         ELSE -1

\* `*parent_path, name = module_name.split(".")`, module_name given as its atoms
ParentPath(path) == SubSeq(path, 1, Len(path) - 1)
LastName(path) == path[Len(path)]

\* the submodule a path names: an attribute of the parent or an index into it
SlotValue(h, path) ==
    LET parent == GetSubmodule(h, RootId, ParentPath(path))
        name == LastName(path)
    IN  IF HasAttr(h[parent], name) THEN GetAttr(h[parent], name)
        ELSE LET n == Len(h[parent].children)
                 idx == IntOf(name)
             IN  h[parent].children[(IF idx < 0 THEN idx + n ELSE idx) + 1].id

\* the paths a caller patches: a named attribute, list indices (also from the end),
\* and the submodule of a holder
Paths(h) ==
    {<<"fc">>, <<"h", "-1">>} \cup { <<"h", ToString(i)>> : i \in 0..(ListLen - 1) }
    \cup (IF h[FcId].cls = "Holder" THEN {<<"fc", "wrapped_module">>} ELSE {})

\* the modules reachable from the ids in S
Kids(h, S) == UNION { { h[i].children[k].id : k \in 1..Len(h[i].children) } : i \in S }
RECURSIVE Reach(_, _)
Reach(h, S) == LET n == S \cup Kids(h, S) IN IF n = S THEN S ELSE Reach(h, n)

\* gc.collect() / reference counting: what neither the model nor the caller holds is freed
Collect(h, roots) == [id \in Reach(h, roots) |-> h[id]]

NewId(h) == CHOOSE i \in 200..(200 + Cardinality(DOMAIN h)) : i \notin DOMAIN h

\* ProjectionWrapper.__init__: self.wrapped_module = wrapped_module.wrapped_module
ProjectionWrapper_init(h, wrapped_module, projection, has_leftover) ==
    IF HasAttr(h[wrapped_module], "wrapped_module")
    THEN [raised |-> "none",
          obj |-> [cls |-> "ProjectionWrapper",
                   children |-> <<[name |-> "wrapped_module",
                                   id |-> GetAttr(h[wrapped_module], "wrapped_module")]>>,
                   returns_tuple |-> FALSE,
                   projection |-> projection, has_leftover |-> has_leftover]]
    ELSE [raised |-> "AttributeError", obj |-> Leaf(FALSE)]

\* symbolic forward passes: <<"app", module, input>> is what a leaf computes
Hidden(v) == IF v[1] = "tuple" THEN v[2] ELSE v
RECURSIVE Forward(_, _, _)
RECURSIVE Pipeline(_, _, _, _)
\* ProjectionWrapper.forward, and the forward of the other modules
Forward(h, id, x) ==
    LET o == h[id]
    IN  CASE o.cls = "Leaf" ->
               IF o.returns_tuple
               THEN <<"tuple", <<"app", ToString(id), x>>, <<"present", ToString(id)>>>>
               ELSE <<"app", ToString(id), x>>
          [] o.cls = "Holder" -> Forward(h, GetAttr(o, "wrapped_module"), x)
          [] o.cls = "ProjectionWrapper" ->
               LET y == Forward(h, GetAttr(o, "wrapped_module"), x)
               IN  IF o.has_leftover
                   THEN <<"tuple", <<"proj", o.projection, y[2]>>, y[3]>>
                   ELSE <<"proj", o.projection, y>>
          [] OTHER -> Pipeline(h, o.children, Len(o.children), x)
Pipeline(h, children, n, x) ==
    IF n = 0 THEN x
    ELSE Hidden(Forward(h, children[n].id, Pipeline(h, children, n - 1, x)))

ModelOutput(h) == Forward(h, RootId, <<"in">>)

\* (a variant that puts back what the wrapper wraps instead of old_module)
AssignSlot_inner(h, path, value) ==
    LET parent == GetSubmodule(h, RootId, ParentPath(path))
        name == LastName(path)
        v == IF HasAttr(h[value], "wrapped_module") THEN GetAttr(h[value], "wrapped_module")
             ELSE value
    IN  IF HasAttr(h[parent], name) THEN SetAttr(h, parent, name, v)
        ELSE ListSetItem(h, parent, IntOf(name), v)

\* the slot assignment both functions end with: setattr(parent, name, m) for a regular
\* attribute, parent[int(name)] = m for the member of a list
AssignSlot(h, path, value) ==
    LET parent == GetSubmodule(h, RootId, ParentPath(path))
        name == LastName(path)
    IN  IF HasAttr(h[parent], name) THEN SetAttr(h, parent, name, value)
        ELSE ListSetItem(h, parent, IntOf(name), value)

edit_model_inplace(old_module, path, projection, has_leftover) ==
    /\ patch_pc \in {"clean", "recovered"}
    /\ LET w == ProjectionWrapper_init(heap, old_module, projection, has_leftover)
           new == NewId(heap)
       IN  /\ patch_call' = [path |-> path, old_module |-> old_module,
                             projection |-> projection, has_leftover |-> has_leftover,
                             raised |-> w.raised, new_module |-> new]
           /\ heap0' = heap
           /\ IF w.raised # "none"
              THEN /\ patch_pc' = "edit_raised"
                   /\ heap' = heap
              ELSE /\ patch_pc' = "patched"
                   /\ heap' = Collect(AssignSlot((new :> w.obj) @@ heap, path, new),
                                      {RootId, old_module})
    /\ UNCHANGED NotPatch

recover_model_inplace(old_module, path) ==
    /\ patch_pc \in {"patched", "edit_raised"}
    /\ heap' = Collect(AssignSlot(heap, path, old_module), {RootId, old_module})
    /\ patch_pc' = "recovered"
    /\ UNCHANGED <<patch_call, heap0>>
    /\ UNCHANGED NotPatch

InitPatch ==
    /\ \E holders \in SUBSET OriginalIds : heap = InitialHeap(holders)
    /\ heap0 = heap /\ patch_pc = "clean" /\ patch_call = <<>>
    /\ RestHooks /\ RestConf /\ RestCone /\ RestDs /\ RestGen /\ RestAn

\* a caller patches the submodule found at a path, and undoes the patch with the same
\* old_module and path
NextPatch ==
    \/ \E path \in Paths(heap), projection \in Projections, has_leftover \in BOOLEAN :
          edit_model_inplace(SlotValue(heap, path), path, projection, has_leftover)
    \/ recover_model_inplace(patch_call.old_module, patch_call.path)

SpecPatch == InitPatch /\ [][NextPatch]_vars

(* ------------------------------ claims ------------------------------- *)

\* C2: after edit_model_inplace(model, old_module, path, ...) on the submodule found at
\* path and then recover_model_inplace(model, old_module, path), the slot holds the
\* same original submodule object, every other slot is as before, and the model
\* computes the same output as before the patch.
C2_PatchThenUndoRestores ==
    patch_pc = "recovered" =>
        /\ SlotValue(heap, patch_call.path) = patch_call.old_module
        /\ SlotValue(heap0, patch_call.path) = patch_call.old_module
        /\ DOMAIN heap = DOMAIN heap0
        /\ \A id \in DOMAIN heap0 : heap[id] = heap0[id]
        /\ ModelOutput(heap) = ModelOutput(heap0)

\* C2's case: the patch had put a wrapper into a list slot named by its index, the
\* model computed something else while patched, and the undo has run.
C2_Witness ==
    /\ patch_pc = "recovered" /\ patch_call.raised = "none"
    /\ patch_call.path[1] = "h"
    /\ patch_call.new_module \notin DOMAIN heap

\* C3: for an ordinary (not previously wrapped) submodule M found at the path,
\* edit_model_inplace succeeds and leaves at that path a ProjectionWrapper whose forward
\* calls M itself and returns projection(M's output), or, with has_leftover,
\* (projection(first element), the remaining elements).
C3_EditWrapsOrdinaryModule ==
    (patch_pc \in {"patched", "edit_raised"} /\ heap0[patch_call.old_module].cls = "Leaf") =>
        /\ patch_pc = "patched"
        /\ heap[SlotValue(heap, patch_call.path)].cls = "ProjectionWrapper"
        /\ GetAttr(heap[SlotValue(heap, patch_call.path)], "wrapped_module")
             = patch_call.old_module
        /\ LET y == Forward(heap0, patch_call.old_module, <<"x">>)
               got == Forward(heap, SlotValue(heap, patch_call.path), <<"x">>)
           IN  IF patch_call.has_leftover
               THEN got = <<"tuple", <<"proj", patch_call.projection, y[2]>>, y[3]>>
               ELSE got = <<"proj", patch_call.projection, y>>

(* ===================================================================== *)
(* The swap test: measure_confusions_grad, measure_confusions             *)
(* ===================================================================== *)
NotConf == <<HookVars, PatchVars, ConeVars, DsVars, GenVars, AnVars>>

Prompts == {"P", "N"}
Vocab == {1, 2}                      \* tokenizer.encode(answer)[0] of the answers
Abs(x) == IF x < 0 THEN -x ELSE x
MaxOf(S) == CHOOSE x \in S : \A y \in S : y <= x

Logits == {0, 1}

\* the Tests: each side a prompt and the first token of its answer, the answers differing
Tests ==
    { [positive |-> [prompt |-> "P", answer |-> a[1]],
       negative |-> [prompt |-> "N", answer |-> a[2]]] :
         a \in { b \in Vocab \X Vocab : b[1] # b[2] } }

\* the probes create_frankenstein builds: the direction set, and the model around the
\* layer, that is the hidden states each prompt has at the layer and the logits the
\* rest of the model computes from the layer's output
Probes ==
    [dirs : DirSets, additional : {0}, hidden : [Prompts -> Vec],
     readout : [Vec -> [Vocab -> Logits]]]

\* frankenstein(inp1, inp2) on batches of prompts: the logits at the last position
frankenstein(pr, inp1, inp2) ==
    LET act1 == ApplyOperation("first", [r \in 1..Len(inp1) |-> pr.hidden[inp1[r]]])
        proj_act1 == ProjAct1(act1, pr.dirs)
        y == Block([r \in 1..Len(inp2) |-> pr.hidden[inp2[r]]])
        mixed == Mix(y, pr.dirs, proj_act1, pr.additional)
    IN  [r \in 1..Len(inp2) |-> pr.readout[mixed.hs[r]]]

\* torch.log_softmax over the vocabulary: x - logsumexp(x), the normaliser of a row
\* standing in as its largest logit
log_softmax(row) == [t \in Vocab |-> row[t] - MaxOf({ row[u] : u \in Vocab })]

measure_confusions_grad(t, model) ==
    LET qs == <<t.positive, t.negative>>
        inps1 == <<qs[1].prompt, qs[1].prompt, qs[2].prompt, qs[2].prompt>>
        inps2 == <<qs[1].prompt, qs[2].prompt, qs[1].prompt, qs[2].prompt>>
        logits == frankenstein(model, inps1, inps2)
        outs_mixed_raw == [r \in 1..4 |-> log_softmax(logits[r])]
        outs_mixed == <<<<outs_mixed_raw[1], outs_mixed_raw[2]>>,
                        <<outs_mixed_raw[3], outs_mixed_raw[4]>>>>
        res == [i \in 1..2 |-> [j \in 1..2 |->
                   LET correct == qs[i].answer
                       wrong == qs[3 - i].answer
                   IN  outs_mixed[i][j][correct] - outs_mixed[i][j][wrong]]]
    IN  Abs(res[1][1] - res[1][2]) + Abs(res[2][2] - res[2][1])

\* measure_confusions(test, model): the same value, computed without gradients
measure_confusions ==
    /\ scores' = [scores EXCEPT ![orient] = measure_confusions_grad(test, probe)]
    /\ UNCHANGED <<test, orient, probe>>
    /\ UNCHANGED NotConf

\* the caller exchanges the positive and the negative side of the Test
Relabel ==
    /\ test' = [positive |-> test.negative, negative |-> test.positive]
    /\ orient' = IF orient = "orig" THEN "swapped" ELSE "orig"
    /\ UNCHANGED <<probe, scores>>
    /\ UNCHANGED NotConf

InitConf ==
    /\ test \in Tests /\ probe \in Probes /\ orient = "orig"
    /\ scores = [o \in {"orig", "swapped"} |-> -1]
    /\ RestHooks /\ RestPatch /\ RestCone /\ RestDs /\ RestGen /\ RestAn

NextConf == measure_confusions \/ Relabel

SpecConf == InitConf /\ [][NextConf]_vars

(* ------------------------------ claims ------------------------------- *)

\* C5: measure_confusions returns the same score for a Test and for the Test with its
\* positive and negative sides exchanged, the probe being the same.
C5_SwapInvariant ==
    (scores["orig"] # -1 /\ scores["swapped"] # -1) => scores["orig"] = scores["swapped"]

(* ===================================================================== *)
(* project_cone                                                           *)
(* ===================================================================== *)
NotCone == <<HookVars, PatchVars, ConfVars, DsVars, GenVars, AnVars>>

Gammas == (-2)..(RightAngle + 2)

\* the loop of project_cone: row dirs[-(i + 1)] is applied at step i, to every vector of
\* the batch; the trigonometry of a step is not evaluated, a step is kept as a term
RECURSIVE ConeLoop(_, _, _, _)
ConeLoop(Xs, dirs, gamma, i) ==
    IF i = Len(dirs) THEN Xs
    ELSE ConeLoop(Append(Xs, [cone |-> Xs[i + 1], dir |-> dirs[Len(dirs) - i], gamma |-> gamma]),
                  dirs, gamma, i + 1)

\* (a variant whose check lets the angle 0 through)
project_cone_result_zero_ok(X, dirs, gamma) ==
    IF gamma < 0 \/ gamma >= RightAngle
    THEN [kind |-> "ValueError", value |-> gamma]
    ELSE LET Xs == ConeLoop(<<X>>, dirs, gamma, 0)
         IN  [kind |-> "tensor", value |-> Xs[Len(Xs)]]

\* project_cone(X, dirs, gamma), np.pi / 2 being RightAngle units
project_cone_result(X, dirs, gamma) ==
    IF gamma <= 0 \/ gamma >= RightAngle
    THEN [kind |-> "ValueError", value |-> gamma]
    ELSE LET Xs == ConeLoop(<<X>>, dirs, gamma, 0)
         IN  [kind |-> "tensor", value |-> Xs[Len(Xs)]]

project_cone(X, dirs, gamma) ==
    /\ cone_in' = [X |-> X, dirs |-> dirs, gamma |-> gamma]
    /\ cone_out' = project_cone_result(X, dirs, gamma)
    /\ UNCHANGED NotCone

InitCone ==
    /\ cone_in = <<>> /\ cone_out = <<>>
    /\ RestHooks /\ RestPatch /\ RestConf /\ RestDs /\ RestGen /\ RestAn

NextCone == \E X \in BatchesOfLen(1), dirs \in DirSets, gamma \in Gammas : project_cone(X, dirs, gamma)

SpecCone == InitCone /\ [][NextCone]_vars

(* ------------------------------ claims ------------------------------- *)

\* C6: project_cone raises ValueError, with nothing computed, for every gamma <= 0 and
\* every gamma >= pi/2, whatever X and dirs are; for every gamma strictly between it
\* raises no validation error and returns a result, one step per row of dirs.
C6_ConeAngleValidated ==
    cone_in # <<>> =>
        /\ (cone_in.gamma <= 0 \/ cone_in.gamma >= RightAngle) =>
              cone_out = [kind |-> "ValueError", value |-> cone_in.gamma]
        /\ (0 < cone_in.gamma /\ cone_in.gamma < RightAngle) =>
              /\ cone_out.kind = "tensor"
              /\ (cone_in.dirs = <<>> => cone_out.value = cone_in.X)
              /\ (cone_in.dirs # <<>> => cone_out.value.dir = cone_in.dirs[1])

\* C6's case: the call with the angle 0 and an empty dirs was refused.
C6_Witness ==
    /\ cone_in # <<>> /\ cone_in.gamma = 0 /\ cone_in.dirs = <<>>
    /\ cone_out.kind = "ValueError"

(* ===================================================================== *)
(* ActivationsDataset.project and ActivationsDataset.project_             *)
(* ===================================================================== *)
NotDs == <<HookVars, PatchVars, ConfVars, ConeVars, GenVars, AnVars>>

Labels == {0, 1}
DirScales == {-1, 2}
\* the datasets: up to MaxRows rows, one label per row
Datasets ==
    UNION { [x_data : [1..n -> Vec], y_data : [1..n -> Labels]] : n \in 0..MaxRows }
\* the non-zero directions whose norm is an integer: multiples of a basis vector
DsDirs == { VScale(k, Basis(i)) : k \in DirScales, i \in 1..Dim }

ISqrt(n) == CHOOSE r \in 0..n : r * r = n
\* torch.linalg.norm(dir)
Norm(dir) == ISqrt(Dot(dir, dir))
\* dir / torch.linalg.norm(dir)
Normalized(dir) == [i \in 1..Dim |-> dir[i] \div Norm(dir)]

\* ActivationsDataset.project: new_x_data
project_x_data(self, dir) ==
    LET dir_norm == Normalized(dir)
    IN  projectBatch(self.x_data, <<dir_norm>>, 1)

\* (a variant that projects along dir as given, without normalising it)
project__x_data_unnormalised(self, dir) == projectBatch(self.x_data, <<dir>>, 1)

\* ActivationsDataset.project_: the value assigned to self.x_data
project__x_data(self, dir) ==
    LET dir_norm == Normalized(dir)
    IN  projectBatch(self.x_data, <<dir_norm>>, 1)

\* D.project(dir): returns ActivationsDataset(new_x_data, self.y_data)
ActivationsDataset_project(dir) ==
    /\ ds_pc = "fresh"
    /\ ds_ret' = [x_data |-> project_x_data(ds, dir), y_data |-> ds.y_data]
    /\ ds_dir' = dir
    /\ ds_pc' = "projected"
    /\ UNCHANGED <<ds, ds_orig, ds_dir_>>
    /\ UNCHANGED NotDs

\* D.project_(dir): self.x_data = ...
ActivationsDataset_project_(dir) ==
    /\ ds_pc \in {"fresh", "projected"}
    /\ ds' = [ds EXCEPT !.x_data = project__x_data(ds, dir)]
    /\ ds_dir_' = dir
    /\ ds_pc' = "done"
    /\ UNCHANGED <<ds_ret, ds_orig, ds_dir>>
    /\ UNCHANGED NotDs

InitDs ==
    /\ ds \in Datasets /\ ds_orig = ds /\ ds_ret = <<>> /\ ds_dir = <<>> /\ ds_dir_ = <<>>
    /\ ds_pc = "fresh"
    /\ RestHooks /\ RestPatch /\ RestConf /\ RestCone /\ RestGen /\ RestAn

NextDs ==
    \/ \E dir \in DsDirs : ActivationsDataset_project(dir)
    \/ \E dir \in DsDirs : ActivationsDataset_project_(dir)

SpecDs == InitDs /\ [][NextDs]_vars

(* ------------------------------ claims ------------------------------- *)

\* a row with its component along the (not normalised) direction d removed
RowWithout(x, d) == [i \in 1..Dim |-> x[i] - (Dot(x, d) * d[i]) \div Dot(d, d)]

\* C7: D.project(d) returns a new dataset and leaves D's activations and labels as they
\* were; D.project_(d) replaces D's activations and leaves its labels; the activations
\* D.project(d) returned are those D holds after D.project_(d), each row being the
\* original row without its component along d, and the labels are the original ones.
C7_ProjectAndProjectInPlaceAgree ==
    /\ ds_pc = "projected" =>
          /\ ds = ds_orig
          /\ ds_ret.y_data = ds_orig.y_data
          /\ ds_ret.x_data = [r \in 1..Len(ds_orig.x_data) |-> RowWithout(ds_orig.x_data[r], ds_dir)]
    /\ ds_pc = "done" =>
          /\ ds.y_data = ds_orig.y_data
          /\ ds.x_data = [r \in 1..Len(ds_orig.x_data) |-> RowWithout(ds_orig.x_data[r], ds_dir_)]
          /\ (ds_dir # <<>> /\ ds_dir = ds_dir_) =>
                /\ ds.x_data = ds_ret.x_data
                /\ ds.y_data = ds_ret.y_data

\* C7's case: project and then project_ ran with the same direction, one that is not of
\* unit length, on a dataset of two rows with different labels, and changed a row.
C7_Witness ==
    /\ ds_pc = "done" /\ ds_dir = ds_dir_ /\ Norm(ds_dir_) # 1
    /\ Len(ds.x_data) = 2 /\ ds.y_data[1] # ds.y_data[2]
    /\ ds.x_data # ds_orig.x_data

(* ===================================================================== *)
(* generate_dirs.py: run(model_name, n, layer_nb)                         *)
(* ===================================================================== *)
NotGen == <<HookVars, PatchVars, ConfVars, ConeVars, DsVars, AnVars>>

\* an optional integer argument: None, or a given integer
None == [given |-> FALSE, value |-> 0]
Some(k) == [given |-> TRUE, value |-> k]
\* Python truth value of an optional integer: None and 0 are false
Truthy(v) == v.given /\ v.value # 0

ModelNames == {"gpt2"}
LayerArgs == {None} \cup { Some(k) : k \in (-1)..NumLayers }
Outcomes == {"ok", "method_raises", "save_raises"}

\* the list methods, by __name__
methods ==
    << "get_random", "get_embed_she_he", "get_unembed_she_he", "get_confusion_grad",
       "get_grad_she_he", "get_inlp", "get_rlace", "get_grad_descent" >>

\* layer_nb_ = layer_nb or len(model.transformer.h) // 2
layer_nb_(layer_nb) == IF Truthy(layer_nb) THEN layer_nb.value ELSE NumLayers \div 2

\* (a variant of the file name that leaves the round out)
file_name_without_round(layer_nb, m, i) ==
    IF Truthy(layer_nb)
    THEN "L" \o ToString(layer_nb.value) \o " - " \o m \o " - v0.pt"
    ELSE m \o " - v0.pt"

\* file_name = f"L{layer_nb} - {m.__name__} - {i} - v0.pt" if layer_nb else f"{m.__name__} - {i} - v0.pt"
file_name(layer_nb, m, i) ==
    IF Truthy(layer_nb)
    THEN "L" \o ToString(layer_nb.value) \o " - " \o m \o " - " \o ToString(i) \o " - v0.pt"
    ELSE m \o " - " \o ToString(i) \o " - v0.pt"

\* path = Path(".") / "saved_dirs" / model_name / file_name
path(model_name, name) == "saved_dirs/" \o model_name \o "/" \o name

\* run, up to the loop: the layer is looked up with get_submodule, which raises for a
\* name that is not an index of transformer.h
run_setup ==
    /\ gen_pc = "start"
    /\ LET l == layer_nb_(gen_args.layer_nb)
       IN  IF l \in 0..(NumLayers - 1)
           THEN /\ gen_layer' = l
                /\ gen_pc' = "loop"
                /\ gen_i' = 0
                /\ gen_m' = 1
           ELSE /\ gen_pc' = "aborted"
                /\ UNCHANGED <<gen_layer, gen_i, gen_m>>
    /\ UNCHANGED <<gen_args, gen_calls, gen_files>>
    /\ UNCHANGED NotGen

\* one pass of the inner loop body for round gen_i and method gen_m: the method is called
\* with seed = i, then its result is saved; either of the two may raise, which ends run
run_step(outcome) ==
    /\ gen_pc = "loop"
    /\ gen_i < gen_args.n
    /\ LET m == methods[gen_m]
           call == [method |-> m, layer |-> gen_layer, seed |-> gen_i]
           file == [path |-> path(gen_args.model_name, file_name(gen_args.layer_nb, m, gen_i)),
                    d |-> call]
       IN  /\ gen_calls' = Append(gen_calls, call)
           /\ IF outcome = "ok"
              THEN /\ gen_files' = Append(gen_files, file)
                   /\ gen_pc' = "loop"
                   /\ IF gen_m < Len(methods)
                      THEN gen_m' = gen_m + 1 /\ gen_i' = gen_i
                      ELSE gen_m' = 1 /\ gen_i' = gen_i + 1
              ELSE /\ gen_pc' = "aborted"
                   /\ UNCHANGED <<gen_files, gen_i, gen_m>>
    /\ UNCHANGED <<gen_args, gen_layer>>
    /\ UNCHANGED NotGen

\* range(n) is exhausted: run returns
run_return ==
    /\ gen_pc = "loop"
    /\ gen_i = gen_args.n
    /\ gen_pc' = "done"
    /\ UNCHANGED <<gen_args, gen_layer, gen_i, gen_m, gen_calls, gen_files>>
    /\ UNCHANGED NotGen

InitGen ==
    /\ gen_args \in [model_name : ModelNames, n : 0..MaxRounds, layer_nb : LayerArgs]
    /\ gen_pc = "start" /\ gen_layer = 0 /\ gen_i = 0 /\ gen_m = 0
    /\ gen_calls = <<>> /\ gen_files = <<>>
    /\ RestHooks /\ RestPatch /\ RestConf /\ RestCone /\ RestDs /\ RestAn

NextGen ==
    \/ run_setup
    \/ \E outcome \in Outcomes : run_step(outcome)
    \/ run_return

SpecGen == InitGen /\ [][NextGen]_vars

(* ------------------------------ claims ------------------------------- *)

\* the order of the methods as the documentation gives it
DocumentedOrder ==
    << "get_random", "get_embed_she_he", "get_unembed_she_he", "get_confusion_grad",
       "get_grad_she_he", "get_inlp", "get_rlace", "get_grad_descent" >>
\* round and method of the k-th (round, method) pair in round-major order
RoundOf(k) == (k - 1) \div 8
MethodOf(k) == DocumentedOrder[((k - 1) % 8) + 1]

\* C8: with no explicit layer, the k-th write of a run goes to
\* saved_dirs/<model_name>/<method> - <round> - v0.pt for the k-th (round, method) pair
\* in round-major order, the methods in the documented order, after a call of that
\* method with seed = round; the paths are pairwise distinct; a run that completes has
\* made exactly 8*n writes; a run that stopped on a failing call or write has written
\* exactly the pairs before the failing one and takes no further step.
C8_EightFilesPerRoundInOrder ==
    ~gen_args.layer_nb.given =>
        /\ \A k \in 1..Len(gen_files) :
              /\ gen_files[k].path =
                    "saved_dirs/" \o gen_args.model_name \o "/" \o MethodOf(k)
                        \o " - " \o ToString(RoundOf(k)) \o " - v0.pt"
              /\ gen_files[k].d = gen_calls[k]
        /\ \A k \in 1..Len(gen_calls) :
              gen_calls[k].method = MethodOf(k) /\ gen_calls[k].seed = RoundOf(k)
        /\ \A j, k \in 1..Len(gen_files) : j # k => gen_files[j].path # gen_files[k].path
        /\ gen_pc = "done" => Len(gen_files) = 8 * gen_args.n /\ Len(gen_calls) = 8 * gen_args.n
        /\ gen_pc = "loop" => Len(gen_calls) = Len(gen_files)
        /\ gen_pc = "aborted" =>
              /\ Len(gen_calls) = Len(gen_files) + 1
              /\ Len(gen_files) < 8 * gen_args.n
              /\ ~ENABLED NextGen

\* C8's case: a run of two rounds with no explicit layer completed with 16 writes.
C8_Witness ==
    /\ ~gen_args.layer_nb.given /\ gen_args.n = 2
    /\ gen_pc = "done" /\ Len(gen_files) = 16

\* C9: with an explicit layer_nb that is an index of transformer.h, 0 included, every
\* direction is computed at layer layer_nb and every file is named
\* L<layer_nb> - <method> - <round> - v0.pt; with layer_nb omitted the middle layer and
\* the name <method> - <round> - v0.pt are used.
C9_ExplicitLayerUsedAndPrefixed ==
    LET nb == gen_args.layer_nb
    IN  /\ (nb.given /\ nb.value \in 0..(NumLayers - 1)) =>
              /\ gen_pc # "aborted" \/ gen_calls # <<>>
              /\ gen_pc \in {"loop", "done"} => gen_layer = nb.value
              /\ \A k \in 1..Len(gen_calls) : gen_calls[k].layer = nb.value
              /\ \A k \in 1..Len(gen_files) :
                    gen_files[k].path =
                        "saved_dirs/" \o gen_args.model_name \o "/L" \o ToString(nb.value)
                            \o " - " \o gen_calls[k].method
                            \o " - " \o ToString(gen_calls[k].seed) \o " - v0.pt"
        /\ ~nb.given =>
              /\ gen_pc \in {"loop", "done"} => gen_layer = NumLayers \div 2
              /\ \A k \in 1..Len(gen_files) :
                    gen_files[k].path =
                        "saved_dirs/" \o gen_args.model_name \o "/" \o gen_calls[k].method
                            \o " - " \o ToString(gen_calls[k].seed) \o " - v0.pt"

(* ===================================================================== *)
(* analyze_dirs.py: loading the saved direction sets                      *)
(* ===================================================================== *)
NotAn == <<HookVars, PatchVars, ConfVars, ConeVars, DsVars, GenVars>>

Concepts == {"gender", "politics"}
ScannedLayers == 0..(LayerRange - 1)
\* Path(f"./saved_dirs/v2-gpt2-xl/l{l}-n1-d<concept>.pt")
dirs_path(concept, l) == "./saved_dirs/v2-gpt2-xl/l" \o ToString(l) \o "-n1-d" \o concept \o ".pt"
AllPaths == { dirs_path(c, l) : c \in Concepts, l \in ScannedLayers }
\* torch.load(path): the direction set saved for a concept at a layer
Loaded(concept, l) == [concept |-> concept, layer |-> l, rows |-> <<1>>]

\* { l: torch.load(path) for l, path in [...range(...)] if path.exists() }
load_dirs(concept) ==
    [l \in { k \in ScannedLayers : dirs_path(concept, k) \in an_files } |-> Loaded(concept, l)]

\* gender_dirs = {...}
load_gender_dirs ==
    /\ an_pc = "gender_dirs"
    /\ gender_dirs' = load_dirs("gender")
    /\ an_pc' = "politics_dirs"
    /\ UNCHANGED <<an_files, politics_dirs, empty_dirs, an_error>>
    /\ UNCHANGED NotAn

\* politics_dirs = {...}
load_politics_dirs ==
    /\ an_pc = "politics_dirs"
    /\ politics_dirs' = load_dirs("politics")
    /\ an_pc' = "empty_dirs"
    /\ UNCHANGED <<an_files, gender_dirs, empty_dirs, an_error>>
    /\ UNCHANGED NotAn

\* empty_dirs = list(gender_dirs.values())[0][0:0]: the first value, in insertion order
\* (ascending layer), sliced to no rows; indexing an empty list raises IndexError
build_empty_dirs ==
    /\ an_pc = "empty_dirs"
    /\ IF DOMAIN gender_dirs = {}
       THEN /\ an_error' = "IndexError"
            /\ an_pc' = "failed"
            /\ UNCHANGED empty_dirs
       ELSE LET first == CHOOSE l \in DOMAIN gender_dirs : \A k \in DOMAIN gender_dirs : l <= k
            IN  /\ empty_dirs' = [gender_dirs[first] EXCEPT !.rows = <<>>]
                /\ an_pc' = "loaded"
                /\ UNCHANGED an_error
    /\ UNCHANGED <<an_files, gender_dirs, politics_dirs>>
    /\ UNCHANGED NotAn

InitAn ==
    /\ an_files \in SUBSET AllPaths
    /\ an_pc = "gender_dirs"
    /\ gender_dirs = <<>> /\ politics_dirs = <<>> /\ empty_dirs = <<>>
    /\ an_error = "none"
    /\ RestHooks /\ RestPatch /\ RestConf /\ RestCone /\ RestDs /\ RestGen

NextAn ==
    \/ load_gender_dirs
    \/ load_politics_dirs
    \/ build_empty_dirs

SpecAn == InitAn /\ [][NextAn]_vars

(* ------------------------------ claims ------------------------------- *)

\* C10: whatever subset of the per-layer files exists, none at all included, loading the
\* two direction maps and building the empty direction set raises no error, and each
\* loaded map holds exactly the layers whose file exists.
C10_LoadingNeverFails ==
    /\ an_error = "none"
    /\ an_pc # "failed"
    /\ an_pc \in {"politics_dirs", "empty_dirs", "loaded"} =>
          DOMAIN gender_dirs = { l \in ScannedLayers : dirs_path("gender", l) \in an_files }
    /\ an_pc \in {"empty_dirs", "loaded"} =>
          DOMAIN politics_dirs = { l \in ScannedLayers : dirs_path("politics", l) \in an_files }
    /\ an_pc = "loaded" => empty_dirs.rows = <<>>
=============================================================================
